---- MODULE Spec2Model ----
(***************************************************************************)
(* Operator overloading study (src/main.rs): Complex<T> arithmetic and     *)
(* equality, Interval<T> partial ordering, Image<P> row indexing.          *)
(*                                                                         *)
(* The program is a set of independent value types, so there is one        *)
(* specification per type: SpecInterval, SpecImage, SpecComplex.  Each     *)
(* draws the constructor arguments in its initial state and then applies   *)
(* the operations of the type; the last call and what it returned are      *)
(* kept in a call record (icall, iret, cret).  A panic is fatal: once      *)
(* panicked is TRUE no further operation runs.  The Complex program calls  *)
(* the pure operators on its literals first and accumulates afterwards.    *)
(***************************************************************************)
EXTENDS Integers, Sequences, FiniteSets, TLC

VARIABLES
    overflow_checks, \* build profile: integer overflow panics (TRUE) or wraps (FALSE)
    panicked,        \* a panic has unwound the program
    ia, ib, ic,      \* three Interval literals a, b, c
    icall,           \* last comparison of a with b and its result
    new_w, new_h,    \* the arguments Image::new was called with
    img,             \* the Image: [width, pixels]
    iret,            \* last Image call and its result
    last_written,    \* history: per coordinate, the value last stored there
    stray_write,     \* history: a store through a row index >= height has succeeded
    cx, cy,          \* two Complex literals of one component type
    acc,             \* a copy of cx, mutated by +=
    sum,             \* a copy of cx, reassigned by sum = sum + rhs
    nsteps,          \* number of += steps applied
    cret             \* last Complex call and its result

vars == <<overflow_checks, panicked, ia, ib, ic, icall, new_w, new_h, img, iret,
          last_written, stray_write, cx, cy, acc, sum, nsteps, cret>>

intervalVars == <<ia, ib, ic, icall>>
imageVars    == <<new_w, new_h, img, iret, last_written, stray_write>>
complexVars  == <<cx, cy, acc, sum, nsteps, cret>>

(***************************************************************************)
(* Bounds of the model.                                                    *)
(***************************************************************************)
MaxCoord == 3     \* Interval endpoints are drawn from 0..MaxCoord
MaxCells == 4     \* Images have at most MaxCells pixels; row and column
                  \* indices are drawn from 0..MaxCells
UsizeBits == 3    \* width of the model's usize
IntBits == 2      \* width of the model's signed integer component type
MaxFloat == 1     \* finite float components are drawn from -MaxFloat..MaxFloat
MaxSteps == 2     \* at most this many += steps

(***************************************************************************)
(* Interval<T> and its PartialOrd implementation.                          *)
(***************************************************************************)
Intervals == [lower : 0..MaxCoord, upper : 0..MaxCoord]

\* #[derive(PartialEq)] on Interval: field-wise equality
IntervalEq(self, other) == self.lower = other.lower /\ self.upper = other.upper

\* variant of partial_cmp: the Greater test placed before the equality test
partial_cmp_greater_first(self, other) ==
    IF self.lower >= other.upper THEN "Greater"
    ELSE IF IntervalEq(self, other) THEN "Equal"
    ELSE IF self.upper <= other.lower THEN "Less"
    ELSE "None"

\* variant of partial_cmp: a total comparison, overlapping intervals come out Less
partial_cmp_total(self, other) ==
    IF IntervalEq(self, other) THEN "Equal"
    ELSE IF self.lower >= other.upper THEN "Greater"
    ELSE "Less"

\* variant of partial_cmp: Greater tested with > instead of >=
partial_cmp_strict_greater(self, other) ==
    IF IntervalEq(self, other) THEN "Equal"
    ELSE IF self.lower > other.upper THEN "Greater"
    ELSE IF self.upper <= other.lower THEN "Less"
    ELSE "None"

\* Option<Ordering> as "Less" | "Equal" | "Greater" (Some) or "None"
partial_cmp(self, other) ==
    IF IntervalEq(self, other) THEN "Equal"
    ELSE IF self.lower >= other.upper THEN "Greater"
    ELSE IF self.upper <= other.lower THEN "Less"
    ELSE "None"

\* the relational operators the PartialOrd impl inherits from partial_cmp
lt(self, other) == partial_cmp(self, other) = "Less"
le(self, other) == partial_cmp(self, other) \in {"Less", "Equal"}
gt(self, other) == partial_cmp(self, other) = "Greater"
ge(self, other) == partial_cmp(self, other) \in {"Greater", "Equal"}

NoICall == [op |-> "none", lhs |-> [lower |-> 0, upper |-> 0],
            rhs |-> [lower |-> 0, upper |-> 0], ord |-> "None",
            lt |-> FALSE, le |-> FALSE, gt |-> FALSE, ge |-> FALSE]

IntervalIdle == ia = NoICall.lhs /\ ib = NoICall.lhs /\ ic = NoICall.lhs /\ icall = NoICall

\* a.partial_cmp(&b)
CallPartialCmp ==
    /\ ~panicked
    /\ icall' = [NoICall EXCEPT !.op = "partial_cmp", !.lhs = ia, !.rhs = ib,
                                !.ord = partial_cmp(ia, ib)]
    /\ UNCHANGED <<overflow_checks, panicked, ia, ib, ic, imageVars, complexVars>>

\* a < b, a <= b, a > b, a >= b
CallRelOps ==
    /\ ~panicked
    /\ icall' = [op |-> "relops", lhs |-> ia, rhs |-> ib, ord |-> partial_cmp(ia, ib),
                 lt |-> lt(ia, ib), le |-> le(ia, ib), gt |-> gt(ia, ib), ge |-> ge(ia, ib)]
    /\ UNCHANGED <<overflow_checks, panicked, ia, ib, ic, imageVars, complexVars>>

(***************************************************************************)
(* usize arithmetic.  Overflow panics when the build has overflow checks   *)
(* and wraps modulo 2^bits otherwise.                                      *)
(***************************************************************************)
UsizeMod == 2 ^ UsizeBits
Usize == 0..(UsizeMod - 1)

usize_mul(a, b) ==
    IF a * b < UsizeMod THEN [panic |-> FALSE, val |-> a * b]
    ELSE IF overflow_checks THEN [panic |-> TRUE, val |-> 0]
    ELSE [panic |-> FALSE, val |-> (a * b) % UsizeMod]

usize_add(a, b) ==
    IF a + b < UsizeMod THEN [panic |-> FALSE, val |-> a + b]
    ELSE IF overflow_checks THEN [panic |-> TRUE, val |-> 0]
    ELSE [panic |-> FALSE, val |-> (a + b) % UsizeMod]

(***************************************************************************)
(* Image<P>: a row-major pixel buffer.                                     *)
(***************************************************************************)
\* the pixel type P is bool: two values, P::default() is false
Pixels == BOOLEAN
PDefault == FALSE

PanicView == [panic |-> TRUE, start |-> 0, len |-> 0]

\* &buf[start .. end] of a buffer of length len: the slice's own bounds check
slice_range(len, start, end) ==
    IF start > end \/ end > len THEN PanicView
    ELSE [panic |-> FALSE, start |-> start, len |-> end - start]

\* variant of new: width + height pixels instead of width * height
new_sum_of_sides(width, height) ==
    LET n == usize_add(width, height) IN
    [panic |-> n.panic,
     val |-> [width |-> width, pixels |-> [i \in 1..n.val |-> PDefault]]]

\* Image::new(width, height)
new(width, height) ==
    LET n == usize_mul(width, height) IN
    [panic |-> n.panic,
     val |-> [width |-> width, pixels |-> [i \in 1..n.val |-> PDefault]]]

\* the smaller of two numbers (used by index_clamped)
Min(a, b) == IF a <= b THEN a ELSE b

\* variant of index: the range clamped to the buffer instead of bounds-checked
index_clamped(self, row) ==
    LET start == usize_mul(row, self.width) IN
    IF start.panic THEN PanicView
    ELSE LET end == usize_add(start.val, self.width) IN
         IF end.panic THEN PanicView
         ELSE slice_range(Len(self.pixels), Min(start.val, Len(self.pixels)),
                          Min(end.val, Len(self.pixels)))

\* Index<usize>::index(&self, row): the view pixels[start .. start + width]
index(self, row) ==
    LET start == usize_mul(row, self.width) IN
    IF start.panic THEN PanicView
    ELSE LET end == usize_add(start.val, self.width) IN
         IF end.panic THEN PanicView
         ELSE slice_range(Len(self.pixels), start.val, end.val)

\* variant of index_mut: start = row, the multiplication by width forgotten
index_mut_unscaled(self, row) ==
    LET start == row IN
    LET end == usize_add(start, self.width) IN
    IF end.panic THEN PanicView
    ELSE slice_range(Len(self.pixels), start, end.val)

\* IndexMut<usize>::index_mut(&mut self, row): the same range, mutable
index_mut(self, row) ==
    LET start == usize_mul(row, self.width) IN
    IF start.panic THEN PanicView
    ELSE LET end == usize_add(start.val, self.width) IN
         IF end.panic THEN PanicView
         ELSE slice_range(Len(self.pixels), start.val, end.val)

\* the row and column indices the callers pass
Rows == 0..MaxCells
Cols == 0..MaxCells

Coords == (0..(new_h - 1)) \X (0..(new_w - 1))

NoIRet == [op |-> "new", row |-> 0, col |-> 0, val |-> PDefault,
           view |-> [panic |-> FALSE, start |-> 0, len |-> 0],
           panic |-> FALSE, out |-> PDefault]

ImageIdle ==
    /\ new_w = 0 /\ new_h = 0
    /\ img = [width |-> 0, pixels |-> <<>>]
    /\ iret = NoIRet
    /\ last_written = <<>>
    /\ stray_write = FALSE

\* let row = &image[row];
ImgIndex ==
    /\ ~panicked
    /\ \E row \in Rows :
          LET v == index(img, row) IN
          /\ iret' = [op |-> "index", row |-> row, col |-> 0, val |-> PDefault,
                      view |-> v, panic |-> v.panic, out |-> PDefault]
          /\ panicked' = v.panic
    /\ UNCHANGED <<overflow_checks, new_w, new_h, img, last_written, stray_write,
                   intervalVars, complexVars>>

\* let row = &mut image[row];
ImgIndexMut ==
    /\ ~panicked
    /\ \E row \in Rows :
          LET v == index_mut(img, row) IN
          /\ iret' = [op |-> "index_mut", row |-> row, col |-> 0, val |-> PDefault,
                      view |-> v, panic |-> v.panic, out |-> PDefault]
          /\ panicked' = v.panic
    /\ UNCHANGED <<overflow_checks, new_w, new_h, img, last_written, stray_write,
                   intervalVars, complexVars>>

\* let p = image[row][col];  (index, then the slice's own column index)
ImgRead ==
    /\ ~panicked
    /\ \E row \in Rows, col \in Cols :
          LET v == index(img, row)
              bad == v.panic \/ col >= v.len
          IN
          /\ iret' = [op |-> "read", row |-> row, col |-> col, val |-> PDefault,
                      view |-> v, panic |-> bad,
                      out |-> IF bad THEN PDefault ELSE img.pixels[v.start + col + 1]]
          /\ panicked' = bad
    /\ UNCHANGED <<overflow_checks, new_w, new_h, img, last_written, stray_write,
                   intervalVars, complexVars>>

\* image[row][col] = val;  (index_mut, then the slice's own column index)
ImgWrite ==
    /\ ~panicked
    /\ \E row \in Rows, col \in Cols, val \in Pixels :
          LET v == index_mut(img, row)
              bad == v.panic \/ col >= v.len
          IN
          /\ iret' = [op |-> "write", row |-> row, col |-> col, val |-> val,
                      view |-> v, panic |-> bad, out |-> PDefault]
          /\ panicked' = bad
          /\ img' = IF bad THEN img
                    ELSE [img EXCEPT !.pixels[v.start + col + 1] = val]
          /\ last_written' = IF ~bad /\ <<row, col>> \in Coords
                             THEN [last_written EXCEPT ![<<row, col>>] = val]
                             ELSE last_written
          /\ stray_write' = (stray_write \/ (~bad /\ <<row, col>> \notin Coords))
    /\ UNCHANGED <<overflow_checks, new_w, new_h, intervalVars, complexVars>>

(***************************************************************************)
(* Component types T of Complex<T>.  A component is [t, nan, v]:           *)
(*   t = "int"   a signed integer of IntBits bits (i32 in main), v its     *)
(*               value; overflow as for usize;                             *)
(*   t = "float" a float (f64 in main): nan, or the finite value v.        *)
(***************************************************************************)
IntMod == 2 ^ IntBits
IntMin == -(2 ^ (IntBits - 1))
IntMax == (2 ^ (IntBits - 1)) - 1

Int_(n) == [t |-> "int", nan |-> FALSE, v |-> n]
Float_(n) == [t |-> "float", nan |-> FALSE, v |-> n]
NaN == [t |-> "float", nan |-> TRUE, v |-> 0]

IntComps == {Int_(n) : n \in IntMin..IntMax}
FloatComps == {Float_(n) : n \in (-MaxFloat)..MaxFloat} \cup {NaN}

\* two's complement wrap-around of a mathematical integer
WrapInt(n) == ((n - IntMin + 2 * IntMod) % IntMod) + IntMin

PanicT == [panic |-> TRUE, val |-> Int_(0)]

\* T + T
T_add(a, b) ==
    IF a.t = "int"
    THEN IF a.v + b.v \in IntMin..IntMax THEN [panic |-> FALSE, val |-> Int_(a.v + b.v)]
         ELSE IF overflow_checks THEN PanicT
         ELSE [panic |-> FALSE, val |-> Int_(WrapInt(a.v + b.v))]
    ELSE IF a.nan \/ b.nan THEN [panic |-> FALSE, val |-> NaN]
         ELSE [panic |-> FALSE, val |-> Float_(a.v + b.v)]

\* -T
T_neg(a) ==
    IF a.t = "int"
    THEN IF (-a.v) \in IntMin..IntMax THEN [panic |-> FALSE, val |-> Int_(-a.v)]
         ELSE IF overflow_checks THEN PanicT
         ELSE [panic |-> FALSE, val |-> Int_(WrapInt(-a.v))]
    ELSE IF a.nan THEN [panic |-> FALSE, val |-> NaN]
         ELSE [panic |-> FALSE, val |-> Float_(-a.v)]

\* T == T: a not-a-number is equal to nothing, itself included
T_eq(a, b) ==
    IF a.t = "int" THEN a.v = b.v
    ELSE ~a.nan /\ ~b.nan /\ a.v = b.v

(***************************************************************************)
(* Complex<T> and its operators.                                           *)
(***************************************************************************)
ComplexOf(S) == [re : S, im : S]

PanicC == [panic |-> TRUE, val |-> [re |-> Int_(0), im |-> Int_(0)]]

\* variant of add: re: self.re, as in the commented-out impl (main.rs:18-25)
add_keeps_re(self, rhs) ==
    LET im == T_add(self.im, rhs.im) IN
    IF im.panic THEN PanicC
    ELSE [panic |-> FALSE, val |-> [re |-> self.re, im |-> im.val]]

\* Add::add(self, rhs): Complex { re: self.re + rhs.re, im: self.im + rhs.im }
add(self, rhs) ==
    LET re == T_add(self.re, rhs.re) IN
    IF re.panic THEN PanicC
    ELSE LET im == T_add(self.im, rhs.im) IN
         IF im.panic THEN PanicC
         ELSE [panic |-> FALSE, val |-> [re |-> re.val, im |-> im.val]]

\* variant of neg: the imaginary part left as it is
neg_re_only(self) ==
    LET re == T_neg(self.re) IN
    IF re.panic THEN PanicC
    ELSE [panic |-> FALSE, val |-> [re |-> re.val, im |-> self.im]]

\* Neg::neg(self): Complex { re: -self.re, im: -self.im }
neg(self) ==
    LET re == T_neg(self.re) IN
    IF re.panic THEN PanicC
    ELSE LET im == T_neg(self.im) IN
         IF im.panic THEN PanicC
         ELSE [panic |-> FALSE, val |-> [re |-> re.val, im |-> im.val]]

\* variant of add_assign: self.im += rhs.re
add_assign_im_from_re(self, rhs) ==
    LET re == T_add(self.re, rhs.re) IN
    IF re.panic THEN [panic |-> TRUE, val |-> self]
    ELSE LET im == T_add(self.im, rhs.re) IN
         IF im.panic THEN [panic |-> TRUE, val |-> [self EXCEPT !.re = re.val]]
         ELSE [panic |-> FALSE, val |-> [re |-> re.val, im |-> im.val]]

\* AddAssign::add_assign(&mut self, rhs): self.re += rhs.re; self.im += rhs.im;
\* val is *self when the call returns or unwinds
add_assign(self, rhs) ==
    LET re == T_add(self.re, rhs.re) IN
    IF re.panic THEN [panic |-> TRUE, val |-> self]
    ELSE LET im == T_add(self.im, rhs.im) IN
         IF im.panic THEN [panic |-> TRUE, val |-> [self EXCEPT !.re = re.val]]
         ELSE [panic |-> FALSE, val |-> [re |-> re.val, im |-> im.val]]

\* variant of eq: the imaginary parts not compared
eq_re_only(self, other) == T_eq(self.re, other.re)

\* PartialEq::eq(&self, other): self.re == other.re && self.im == other.im
eq(self, other) == T_eq(self.re, other.re) /\ T_eq(self.im, other.im)

Zero == [re |-> Int_(0), im |-> Int_(0)]

NoCRet == [op |-> "none", lhs |-> Zero, rhs |-> Zero, mid |-> Zero,
           panic |-> FALSE, out |-> Zero, holds |-> FALSE]

ComplexIdle ==
    /\ cx = Zero /\ cy = Zero /\ acc = Zero /\ sum = Zero
    /\ nsteps = 0 /\ cret = NoCRet

\* let z = x + y;
CAdd ==
    /\ ~panicked
    /\ nsteps = 0
    /\ \E l \in {cx, cy}, r \in {cx, cy} :
          LET z == add(l, r) IN
          /\ cret' = [op |-> "add", lhs |-> l, rhs |-> r, mid |-> Zero,
                      panic |-> z.panic, out |-> z.val, holds |-> FALSE]
          /\ panicked' = z.panic
    /\ UNCHANGED <<overflow_checks, cx, cy, acc, sum, nsteps, intervalVars, imageVars>>

\* let z = -x;
CNeg ==
    /\ ~panicked
    /\ nsteps = 0
    /\ \E x \in {cx, cy} :
          LET z == neg(x) IN
          /\ cret' = [op |-> "neg", lhs |-> x, rhs |-> Zero, mid |-> Zero,
                      panic |-> z.panic, out |-> z.val, holds |-> FALSE]
          /\ panicked' = z.panic
    /\ UNCHANGED <<overflow_checks, cx, cy, acc, sum, nsteps, intervalVars, imageVars>>

\* let w = -z;  for the z of the preceding let z = -x;
CNegAgain ==
    /\ ~panicked
    /\ nsteps = 0
    /\ cret.op = "neg"
    /\ LET w == neg(cret.out) IN
       /\ cret' = [op |-> "negneg", lhs |-> cret.lhs, rhs |-> Zero, mid |-> cret.out,
                   panic |-> w.panic, out |-> w.val, holds |-> FALSE]
       /\ panicked' = w.panic
    /\ UNCHANGED <<overflow_checks, cx, cy, acc, sum, nsteps, intervalVars, imageVars>>

\* x == y
CEq ==
    /\ ~panicked
    /\ nsteps = 0
    /\ \E l \in {cx, cy}, r \in {cx, cy} :
          cret' = [op |-> "eq", lhs |-> l, rhs |-> r, mid |-> Zero,
                   panic |-> FALSE, out |-> Zero, holds |-> eq(l, r)]
    /\ UNCHANGED <<overflow_checks, panicked, cx, cy, acc, sum, nsteps,
                   intervalVars, imageVars>>

\* acc += rhs;  alongside  sum = sum + rhs;
CAddAssign ==
    /\ ~panicked
    /\ nsteps < MaxSteps
    /\ \E r \in {cx, cy} :
          LET a == add_assign(acc, r)
              z == add(sum, r)
          IN
          /\ acc' = a.val
          /\ sum' = IF z.panic THEN sum ELSE z.val
          /\ cret' = [op |-> "add_assign", lhs |-> acc, rhs |-> r, mid |-> Zero,
                      panic |-> a.panic \/ z.panic, out |-> a.val, holds |-> FALSE]
          /\ panicked' = (a.panic \/ z.panic)
    /\ nsteps' = nsteps + 1
    /\ UNCHANGED <<overflow_checks, cx, cy, intervalVars, imageVars>>

(***************************************************************************)
(* The specifications.                                                     *)
(***************************************************************************)
InitInterval ==
    /\ overflow_checks = FALSE /\ panicked = FALSE
    /\ ia \in Intervals /\ ib \in Intervals /\ ic \in Intervals
    /\ icall = NoICall
    /\ ImageIdle /\ ComplexIdle

NextInterval == CallPartialCmp \/ CallRelOps

SpecInterval == InitInterval /\ [][NextInterval]_vars

InitImage ==
    /\ overflow_checks \in BOOLEAN /\ panicked = FALSE
    /\ new_w \in 0..MaxCells /\ new_h \in 0..MaxCells
    /\ new_w * new_h <= MaxCells
    /\ ~new(new_w, new_h).panic
    /\ img = new(new_w, new_h).val
    /\ iret = NoIRet
    /\ last_written = [p \in Coords |-> PDefault]
    /\ stray_write = FALSE
    /\ IntervalIdle /\ ComplexIdle

NextImage == ImgIndex \/ ImgIndexMut \/ ImgRead \/ ImgWrite

SpecImage == InitImage /\ [][NextImage]_vars

InitComplex ==
    /\ overflow_checks \in BOOLEAN /\ panicked = FALSE
    /\ \E S \in {IntComps, FloatComps} :
          /\ cx \in ComplexOf(S)
          /\ cy \in ComplexOf(S)
    /\ acc = cx /\ sum = cx /\ nsteps = 0
    /\ cret = NoCRet
    /\ IntervalIdle /\ ImageIdle

NextComplex == CAdd \/ CNeg \/ CNegAgain \/ CEq \/ CAddAssign

SpecComplex == InitComplex /\ [][NextComplex]_vars

(***************************************************************************)
(* Properties of Interval (checked under SpecInterval).                    *)
(***************************************************************************)
WellFormed(i) == i.lower <= i.upper

\* C1: partial_cmp(a, b) is Some(Equal) when both bounds agree; otherwise
\* Some(Greater) when a.lower >= b.upper; otherwise Some(Less) when
\* a.upper <= b.lower; otherwise None -- for every pair, lower > upper included.
C1_PartialCmpRules ==
    icall.op = "partial_cmp" =>
        LET a == icall.lhs
            b == icall.rhs
            same == a.lower = b.lower /\ a.upper = b.upper
        IN
        /\ same => icall.ord = "Equal"
        /\ (~same /\ a.lower >= b.upper) => icall.ord = "Greater"
        /\ (~same /\ a.lower < b.upper /\ a.upper <= b.lower) => icall.ord = "Less"
        /\ (~same /\ a.lower < b.upper /\ a.upper > b.lower) => icall.ord = "None"

\* an interval compared with itself where the Greater rule would apply too
C1_Witness ==
    /\ icall.op = "partial_cmp"
    /\ icall.lhs = icall.rhs
    /\ icall.lhs.lower >= icall.rhs.upper
    /\ icall.ord = "Equal"

\* C2: for intervals that overlap without being identical, a < b, a <= b,
\* a > b and a >= b are all false at once.
C2_OverlapIncomparable ==
    LET a == icall.lhs
        b == icall.rhs
    IN
    (icall.op = "relops" /\ a # b /\ a.lower < b.upper /\ a.upper > b.lower)
        => (~icall.lt /\ ~icall.le /\ ~icall.gt /\ ~icall.ge)

C2_Witness ==
    /\ icall.op = "relops"
    /\ icall.lhs.lower < icall.rhs.lower
    /\ icall.rhs.lower < icall.lhs.upper
    /\ icall.lhs.upper < icall.rhs.upper
    /\ ~icall.lt /\ ~icall.le /\ ~icall.gt /\ ~icall.ge

\* the order laws at one comparison a ? b, against every literal c
OrderLaws(a, b, cs) ==
    /\ icall.lt <=> gt(b, a)
    /\ ~(icall.lt /\ lt(b, a))
    /\ \A c \in cs : (icall.lt /\ lt(b, c)) => lt(a, c)

\* C3 as claimed: over all intervals the type can hold, a < b exactly when
\* b > a, never a < b and b < a, and a < b with b < c implies a < c.
C3_OrderLawsAllIntervals ==
    icall.op = "relops" => OrderLaws(icall.lhs, icall.rhs, {ia, ib, ic})

\* C3 amended: the same laws over the well-formed intervals (lower <= upper).
C3_OrderLawsWellFormed ==
    (icall.op = "relops" /\ WellFormed(icall.lhs) /\ WellFormed(icall.rhs))
        => OrderLaws(icall.lhs, icall.rhs, {c \in {ia, ib, ic} : WellFormed(c)})

\* a chain a < b < c of well-formed intervals
C3_Witness ==
    /\ icall.op = "relops"
    /\ WellFormed(icall.lhs) /\ WellFormed(icall.rhs)
    /\ icall.lt
    /\ \E c \in {ia, ib, ic} : WellFormed(c) /\ lt(icall.rhs, c) /\ lt(icall.lhs, c)

(***************************************************************************)
(* Properties of Image (checked under SpecImage).                          *)
(***************************************************************************)
RowCalls == {"index", "index_mut"}

\* C4 as claimed: on an image from Image::new(w, h), index and index_mut with
\* a row index >= h panic and return no view, for every w and h, w = 0 included.
C4_RowPastHeightPanics ==
    (iret.op \in RowCalls /\ iret.row >= new_h) => iret.view.panic

\* C4 amended: index and index_mut with a row index >= h panic and return no
\* view when w >= 1 (h = 0 included) and row * w does not wrap around usize.
C4_RowPastHeightPanicsWideImage ==
    (iret.op \in RowCalls /\ iret.row >= new_h /\ new_w >= 1
        /\ iret.row * new_w < UsizeMod) => iret.view.panic

\* the row just past the last one of an image that has rows and columns
C4_Witness ==
    /\ iret.op \in RowCalls
    /\ new_w >= 1 /\ new_h >= 1
    /\ iret.row = new_h
    /\ iret.view.panic /\ panicked

IsInt(z) == z.re.t = "int"

C8_AddAssignAgreesWithAdd ==
    ~panicked =>
        /\ acc.re = sum.re /\ acc.im = sum.im
        /\ (cret.op = "add_assign" /\ nsteps = 1) =>
              /\ ~add(cx, cret.rhs).panic
              /\ acc = add(cx, cret.rhs).val

C8_Witness ==
    /\ ~panicked
    /\ nsteps = 2
    /\ IsInt(acc)
    /\ acc.re.v # cx.re.v /\ acc.im.v # cx.im.v /\ acc.re.v # acc.im.v
    /\ acc = sum

\* C9: x == y exactly when x.re == y.re and x.im == y.im in the component
\* type's equality: values differing in a component are unequal, x == y
\* agrees with y == x, and x == x is false when a component is not-a-number.
C9_EqPairwise ==
    cret.op = "eq" =>
        LET x == cret.lhs
            y == cret.rhs
        IN
        /\ cret.holds <=> (T_eq(x.re, y.re) /\ T_eq(x.im, y.im))
        /\ (x.re # y.re \/ x.im # y.im) => ~cret.holds
        /\ cret.holds <=> eq(y, x)
        /\ (x = y /\ (x.re.nan \/ x.im.nan)) => ~cret.holds

\* a value with a not-a-number imaginary part compared with itself
C9_Witness ==
    /\ cret.op = "eq"
    /\ cret.lhs = cret.rhs
    /\ ~cret.lhs.re.nan /\ cret.lhs.im.nan
    /\ ~cret.holds

\* C10: over wrap-around integers, neg(x) has re = -x.re and im = -x.im, and
\* neg(neg(x)) == x.
C10_NegInvolution ==
    /\ (cret.op = "neg" /\ IsInt(cret.lhs) /\ ~cret.panic) =>
          /\ cret.out.re.v = WrapInt(-cret.lhs.re.v)
          /\ cret.out.im.v = WrapInt(-cret.lhs.im.v)
    /\ (cret.op = "negneg" /\ IsInt(cret.lhs) /\ ~cret.panic) =>
          /\ eq(cret.out, cret.lhs)
          /\ cret.mid.re.v = WrapInt(-cret.lhs.re.v)
          /\ cret.mid.im.v = WrapInt(-cret.lhs.im.v)
    /\ (cret.op \in {"neg", "negneg"} /\ IsInt(cret.lhs) /\ ~overflow_checks) =>
          ~cret.panic

\* double negation of a value whose real part is the least integer
C10_Witness ==
    /\ cret.op = "negneg" /\ ~cret.panic
    /\ IsInt(cret.lhs)
    /\ cret.lhs.re.v = IntMin /\ cret.lhs.im.v = 1
    /\ cret.mid.re.v = IntMin /\ cret.mid.im.v = -1
    /\ eq(cret.out, cret.lhs)

====
